---- MODULE Spec2Model ----
(***************************************************************************)
(* Model of the document conversion service (src/main.py): the /convert   *)
(* handler as a coroutine on one asyncio event loop, the admission         *)
(* semaphore, the per-job scratch directory, the engine subprocess and     *)
(* the structured log.                                                     *)
(*                                                                         *)
(* Strings that the code inspects (file names, extensions, the target      *)
(* format) are sequences of one-character strings; opaque texts (filter    *)
(* names, MIME types, fixed messages) are TLA+ strings.                    *)
(***************************************************************************)
EXTENDS Integers, Sequences, FiniteSets, TLC

(***************************************************************************)
(* Characters and string primitives                                        *)
(***************************************************************************)

UPPER == <<"A","B","C","D","E","F","G","H","I","J","K","L","M",
           "N","O","P","Q","R","S","T","U","V","W","X","Y","Z">>

LOWER == <<"a","b","c","d","e","f","g","h","i","j","k","l","m",
           "n","o","p","q","r","s","t","u","v","w","x","y","z">>

\* the characters of the model's strings
Chars == {UPPER[i] : i \in 1..26} \cup {LOWER[i] : i \in 1..26} \cup {".", "/"}

\* ord(c): '.' < '/' < 'A'..'Z' < 'a'..'z'
CodePoint ==
    [c \in Chars |->
        IF c = "." THEN 46
        ELSE IF c = "/" THEN 47
        ELSE IF \E i \in 1..26 : UPPER[i] = c
             THEN 64 + (CHOOSE i \in 1..26 : UPPER[i] = c)
        ELSE 96 + (CHOOSE i \in 1..26 : LOWER[i] = c)]

\* c.lower()
LowerChar ==
    [c \in Chars |->
        IF \E i \in 1..26 : UPPER[i] = c
        THEN LOWER[CHOOSE i \in 1..26 : UPPER[i] = c]
        ELSE c]

\* str.lower()
Lower(s) == [i \in 1..Len(s) |-> LowerChar[s[i]]]

\* str.lstrip(".")
RECURSIVE LStripDots(_)
LStripDots(s) ==
    IF s # <<>> /\ Head(s) = "." THEN LStripDots(Tail(s)) ELSE s

\* the positions of character c in s, in increasing order
Positions(s, c) ==
    SelectSeq([i \in 1..Len(s) |-> i], LAMBDA i : s[i] = c)

\* str.rfind(c), 1-based, 0 when absent
RFind(s, c) ==
    LET at == Positions(s, c)
    IN  IF at = <<>> THEN 0 ELSE at[Len(at)]

\* str.endswith
EndsWith(s, t) ==
    /\ Len(t) <= Len(s)
    /\ SubSeq(s, Len(s) - Len(t) + 1, Len(s)) = t

\* s < t for Python strings (lexicographic on code points)
RECURSIVE StrLess(_, _)
StrLess(s, t) ==
    IF t = <<>> THEN FALSE
    ELSE IF s = <<>> THEN TRUE
    ELSE IF CodePoint[Head(s)] # CodePoint[Head(t)]
         THEN CodePoint[Head(s)] < CodePoint[Head(t)]
    ELSE StrLess(Tail(s), Tail(t))

\* sorted(S) for a collection of distinct strings
RECURSIVE Sorted(_)
Sorted(S) ==
    IF S = {} THEN <<>>
    ELSE LET m == CHOOSE x \in S : \A y \in S \ {x} : StrLess(x, y)
         IN  <<m>> \o Sorted(S \ {m})

(***************************************************************************)
(* pathlib                                                                 *)
(***************************************************************************)

\* str.split("/")
SplitSlash(s) ==
    LET cuts == <<0>> \o Positions(s, "/") \o <<Len(s) + 1>>
    IN  [k \in 1..(Len(cuts) - 1) |-> SubSeq(s, cuts[k] + 1, cuts[k + 1] - 1)]

\* the components PurePosixPath keeps: empty and "." components are dropped
PathParts(s) ==
    SelectSeq(SplitSlash(s), LAMBDA p : p # <<>> /\ p # <<".">>)

IsAbsolute(s) == s # <<>> /\ Head(s) = "/"

\* Path(s).name
PathName(s) ==
    LET parts == PathParts(s)
    IN  IF parts = <<>> THEN <<>> ELSE parts[Len(parts)]

\* Path(s).suffix: the last dot of the name and what follows, unless the dot
\* is the first or the last character of the name
PathSuffix(s) ==
    LET name == PathName(s)
        i    == RFind(name, ".")
    IN  IF 1 < i /\ i < Len(name) THEN SubSeq(name, i, Len(name)) ELSE <<>>

\* Path(s).stem
PathStem(s) ==
    LET name == PathName(s)
        i    == RFind(name, ".")
    IN  IF 1 < i /\ i < Len(name) THEN SubSeq(name, 1, i - 1) ELSE name

\* the pattern "*.<ext>*": the extension anywhere in the name
GlobMatch_Anywhere(name, ext) ==
    \E i \in 1..Len(name) :
        /\ i + Len(ext) <= Len(name)
        /\ SubSeq(name, i, i + Len(ext)) = <<".">> \o ext

\* fnmatch of a directory entry against the pattern "*.<ext>"
GlobMatch(name, ext) == EndsWith(name, <<".">> \o ext)

(***************************************************************************)
(* Configuration (class Config)                                            *)
(***************************************************************************)

\* API_MAX_FILE_SIZE, default
MAX_FILE_SIZE == 524288000

\* API_MAX_CONCURRENT, the size of the permit pool
MAX_CONCURRENT == 2

\* API_AUTH_TOKEN
AUTH_TOKEN == "secret"

\* the slice bound of the logged engine diagnostic, stderr.decode()[:500]
ERROR_LOG_CHARS == 500

\* the number of request slots (coroutines of /convert alive at one time)
NumRequests == MAX_CONCURRENT + 1

\* "workers" of gunicorn.conf.py: the CPU count, or API_WORKERS
NumWorkers == 2

Reqs == 1..NumRequests

(***************************************************************************)
(* Format definitions                                                      *)
(***************************************************************************)

\* the extensions named by the matrix, as character sequences
doc == <<"d","o","c">>

docx == <<"d","o","c","x">>

pdf == <<"p","d","f">>

odt == <<"o","d","t">>

txt == <<"t","x","t">>

rtf == <<"r","t","f">>

html == <<"h","t","m","l">>

xls == <<"x","l","s">>

xlsx == <<"x","l","s","x">>

ods == <<"o","d","s">>

csv == <<"c","s","v">>

ppt == <<"p","p","t">>

pptx == <<"p","p","t","x">>

odp == <<"o","d","p">>

\* a table with a pair that crosses families and has no MIME type
CONVERSIONS_TABLE_CrossFamily ==
    docx :> (pdf :> <<"writer_pdf_Export", "application/pdf">> @@
             xlsx :> <<"", "">>)

\* the dict literal bound to CONVERSIONS at import: [input][output] = <<filter name, MIME type>>
CONVERSIONS_TABLE ==
    (doc :>
            (  docx :> <<"MS Word 2007 XML", "application/vnd.openxmlformats-officedocument.wordprocessingml.document">>
            @@ pdf :> <<"writer_pdf_Export", "application/pdf">>
            @@ odt :> <<"writer8", "application/vnd.oasis.opendocument.text">>
            @@ txt :> <<"Text", "text/plain">>
            @@ rtf :> <<"Rich Text Format", "application/rtf">>
            @@ html :> <<"HTML (StarWriter)", "text/html">>))
 @@ (docx :>
            (  doc :> <<"MS Word 97", "application/msword">>
            @@ pdf :> <<"writer_pdf_Export", "application/pdf">>
            @@ odt :> <<"writer8", "application/vnd.oasis.opendocument.text">>
            @@ txt :> <<"Text", "text/plain">>
            @@ rtf :> <<"Rich Text Format", "application/rtf">>
            @@ html :> <<"HTML (StarWriter)", "text/html">>))
 @@ (odt :>
            (  doc :> <<"MS Word 97", "application/msword">>
            @@ docx :> <<"MS Word 2007 XML", "application/vnd.openxmlformats-officedocument.wordprocessingml.document">>
            @@ pdf :> <<"writer_pdf_Export", "application/pdf">>
            @@ txt :> <<"Text", "text/plain">>
            @@ rtf :> <<"Rich Text Format", "application/rtf">>
            @@ html :> <<"HTML (StarWriter)", "text/html">>))
 @@ (rtf :>
            (  doc :> <<"MS Word 97", "application/msword">>
            @@ docx :> <<"MS Word 2007 XML", "application/vnd.openxmlformats-officedocument.wordprocessingml.document">>
            @@ pdf :> <<"writer_pdf_Export", "application/pdf">>
            @@ odt :> <<"writer8", "application/vnd.oasis.opendocument.text">>))
 @@ (xls :>
            (  xlsx :> <<"Calc MS Excel 2007 XML", "application/vnd.openxmlformats-officedocument.spreadsheetml.sheet">>
            @@ pdf :> <<"calc_pdf_Export", "application/pdf">>
            @@ ods :> <<"calc8", "application/vnd.oasis.opendocument.spreadsheet">>
            @@ csv :> <<"Text - txt - csv (StarCalc):44,34,76", "text/csv">>))
 @@ (xlsx :>
            (  xls :> <<"MS Excel 97", "application/vnd.ms-excel">>
            @@ pdf :> <<"calc_pdf_Export", "application/pdf">>
            @@ ods :> <<"calc8", "application/vnd.oasis.opendocument.spreadsheet">>
            @@ csv :> <<"Text - txt - csv (StarCalc):44,34,76", "text/csv">>))
 @@ (ods :>
            (  xls :> <<"MS Excel 97", "application/vnd.ms-excel">>
            @@ xlsx :> <<"Calc MS Excel 2007 XML", "application/vnd.openxmlformats-officedocument.spreadsheetml.sheet">>
            @@ pdf :> <<"calc_pdf_Export", "application/pdf">>
            @@ csv :> <<"Text - txt - csv (StarCalc):44,34,76", "text/csv">>))
 @@ (csv :>
            (  xls :> <<"MS Excel 97", "application/vnd.ms-excel">>
            @@ xlsx :> <<"Calc MS Excel 2007 XML", "application/vnd.openxmlformats-officedocument.spreadsheetml.sheet">>
            @@ ods :> <<"calc8", "application/vnd.oasis.opendocument.spreadsheet">>))
 @@ (ppt :>
            (  pptx :> <<"Impress MS PowerPoint 2007 XML", "application/vnd.openxmlformats-officedocument.presentationml.presentation">>
            @@ pdf :> <<"impress_pdf_Export", "application/pdf">>
            @@ odp :> <<"impress8", "application/vnd.oasis.opendocument.presentation">>))
 @@ (pptx :>
            (  ppt :> <<"MS PowerPoint 97", "application/vnd.ms-powerpoint">>
            @@ pdf :> <<"impress_pdf_Export", "application/pdf">>
            @@ odp :> <<"impress8", "application/vnd.oasis.opendocument.presentation">>))
 @@ (odp :>
            (  ppt :> <<"MS PowerPoint 97", "application/vnd.ms-powerpoint">>
            @@ pptx :> <<"Impress MS PowerPoint 2007 XML", "application/vnd.openxmlformats-officedocument.presentationml.presentation">>
            @@ pdf :> <<"impress_pdf_Export", "application/pdf">>))

(***************************************************************************)
(* State                                                                   *)
(***************************************************************************)

VARIABLES
    CONVERSIONS,            \* the module-level dict of conversion rules
    auth_enabled,           \* config.AUTH_ENABLED
    conversion_semaphore,   \* [_value, _waiters] of the asyncio.Semaphore
    workers,                \* the other gunicorn worker processes of the service
    pc,                     \* where each /convert coroutine stands
    req,                    \* the request a coroutine serves
    locals,                 \* input_ext, output_ext, client_ip of a coroutine
    scratch,                \* the TemporaryDirectory of each job
    outside,                \* files written outside every scratch directory
    proc,                   \* the engine subprocess of each job
    result,                 \* what the executor future of each job holds
    resp,                   \* the response sent for each request
    events,                 \* the log_event records emitted for each request
    trace                   \* the effects of each request, in program order

vars == <<CONVERSIONS, auth_enabled, conversion_semaphore, workers, pc, req, locals,
          scratch, outside, proc, result, resp, events, trace>>

NoReq == [kind |-> "none"]

NoLocals == [kind |-> "none"]

NoResult == [kind |-> "none"]

NoResp == [kind |-> "none"]

NoDir == [exists |-> FALSE, files |-> {}]

\* HTTPException(status_code, detail)
HTTPException(status, detail) ==
    [kind |-> "error", status |-> status, detail |-> detail]

\* an exception no handler of the application catches: the server answers 500
InternalServerError(exc) ==
    [kind |-> "error", status |-> 500,
     detail |-> [msg |-> "Internal Server Error", exc |-> exc]]

(***************************************************************************)
(* Authentication and validation (the handler before its first await)      *)
(***************************************************************************)

\* a gate that asks for a bearer credential and accepts any
verify_auth_PresenceOnly(credentials) ==
    IF ~auth_enabled THEN NoResp
    ELSE IF ~credentials.present
         THEN HTTPException(401, [msg |-> "Authorization header required"])
    ELSE NoResp

\* verify_auth: NoResp when the request may pass
verify_auth(credentials) ==
    IF ~auth_enabled THEN NoResp
    ELSE IF ~credentials.present
         THEN HTTPException(401, [msg |-> "Authorization header required"])
    ELSE IF credentials.credentials # AUTH_TOKEN
         THEN HTTPException(401, [msg |-> "Invalid token"])
    ELSE NoResp

\* the extension get_input_ext computes before it checks it
InputExtOf(filename) == LStripDots(Lower(PathSuffix(filename)))

\* get_input_ext: the extension, or the exception it raises
get_input_ext(filename) ==
    LET ext == InputExtOf(filename)
    IN  IF ext \notin DOMAIN CONVERSIONS
        THEN [ok |-> FALSE,
              exc |-> HTTPException(400,
                        [msg |-> "Unsupported input format", ext |-> ext,
                         listed |-> Sorted(DOMAIN CONVERSIONS)])]
        ELSE [ok |-> TRUE, ext |-> ext]

\* the target compared as it was sent, its letter case kept
OutputExtOf_CaseSensitive(to) == LStripDots(to)

\* output_ext = to.lower().lstrip(".")
OutputExtOf(to) == LStripDots(Lower(to))

\* CONVERSIONS.get(input_ext, {}) as the set of its keys
OutputsOf(input_ext) ==
    IF input_ext \in DOMAIN CONVERSIONS THEN DOMAIN CONVERSIONS[input_ext] ELSE {}

\* convert, lines 258-266: NoResp when the request is a declared pair
ValidateFormats(q) ==
    IF q.filename = <<>>
    THEN HTTPException(400, [msg |-> "Filename required"])
    ELSE LET got == get_input_ext(q.filename)
         IN  IF ~got.ok THEN got.exc
             ELSE LET out == OutputExtOf(q.to)
                  IN  IF out \notin OutputsOf(got.ext)
                      THEN HTTPException(400,
                             [msg |-> "Cannot convert", ext |-> got.ext,
                              to |-> out,
                              listed |-> Sorted(DOMAIN CONVERSIONS[got.ext])])
                      ELSE NoResp

\* the names bound by lines 261, 262, 270 and 278 for a request past validation
input_ext(r) == locals[r].input_ext

output_ext(r) == locals[r].output_ext

input_size(r) == req[r].content.len

filter_name(r) == CONVERSIONS[input_ext(r)][output_ext(r)][1]

\* a media type that does not come from the matrix
mime_type_Generic(r) == "application/octet-stream"

mime_type(r) == CONVERSIONS[input_ext(r)][output_ext(r)][2]

\* get_client_ip
client_ip(r) == locals[r].client_ip

(***************************************************************************)
(* asyncio.Semaphore                                                       *)
(***************************************************************************)

\* Semaphore(config.MAX_CONCURRENT)
NewSemaphore == [value |-> MAX_CONCURRENT, waiters |-> <<>>]

\* Semaphore.locked(); no waiter of the model is ever cancelled
locked(sem) == sem.value = 0 \/ sem.waiters # <<>>

\* Semaphore._wake_up_next(): hand a permit to the first waiter not yet woken
wake_up_next(sem) ==
    IF \E i \in 1..Len(sem.waiters) : ~sem.waiters[i].done
    THEN LET i == CHOOSE k \in 1..Len(sem.waiters) :
                    /\ ~sem.waiters[k].done
                    /\ \A j \in 1..(k-1) : sem.waiters[j].done
         IN  [value |-> sem.value - 1,
              waiters |-> [sem.waiters EXCEPT ![i].done = TRUE]]
    ELSE sem

\* Semaphore.release(), called by __aexit__
release(sem) == wake_up_next([sem EXCEPT !.value = @ + 1])

\* acquire() that forgets to count the permit it hands out
acquire_now_Uncounted(sem) == sem

\* the part of Semaphore.acquire() that runs when the semaphore is not locked
acquire_now(sem) == [sem EXCEPT !.value = @ - 1]

\* the part of Semaphore.acquire() that queues the caller on a future
acquire_wait(sem, r) ==
    [sem EXCEPT !.waiters = Append(@, [r |-> r, done |-> FALSE])]

\* the part of Semaphore.acquire() that runs when the caller's future is set
acquire_resume(sem, r) ==
    LET s1 == [sem EXCEPT !.waiters = SelectSeq(@, LAMBDA w : w.r # r)]
    IN  IF s1.value > 0 THEN wake_up_next(s1) ELSE s1

\* a permit that _wake_up_next took on behalf of a waiter is the waiter's:
\* the resumed acquire() returns without decrementing the counter again
wake_up_granted(sem) == [sem EXCEPT !.value = @ + 1]

\* the future of request r in the waiter queue has been set
Woken(sem, r) == \E i \in 1..Len(sem.waiters) :
                    sem.waiters[i].r = r /\ sem.waiters[i].done

\* an admission check that turns requests away one permit too early
AdmissionRejects_OffByOne(sem) == sem.value <= 1

\* no admission check: every request goes on to acquire()
AdmissionRejects_Never(sem) == FALSE

\* convert, lines 281-284: the request is turned away
AdmissionRejects(sem) == ~(~locked(sem) \/ sem.value > 0)

\* requests inside the "async with conversion_semaphore" block
Holders == {r \in Reqs : pc[r] \in {"submitted", "running", "finished"}}

\* gunicorn forks "workers" processes (gunicorn.conf.py); each imports the
\* application and runs lifespan, so each has a semaphore of its own.  The
\* model follows the requests of worker 1 step by step and keeps, for every
\* other worker, its semaphore and the number of engines it runs.
OtherWorkers == 2..NumWorkers

NewWorker == [conversion_semaphore |-> NewSemaphore, engines |-> 0]

(***************************************************************************)
(* Scratch directory and staging of the input                              *)
(***************************************************************************)

\* leading ".." components of a relative path
RECURSIVE LeadingUps(_)
LeadingUps(parts) ==
    IF parts # <<>> /\ Head(parts) = <<".", ".">>
    THEN 1 + LeadingUps(Tail(parts))
    ELSE 0

\* open(Path(tmpdir) / filename, "wb"): where the bytes land.  A relative
\* name of one component lands in the scratch directory; an absolute name
\* replaces tmpdir; "../" climbs out of it; any other directory component
\* names a directory the fresh scratch directory does not contain.
StageTarget(filename) ==
    LET parts == PathParts(filename)
        ups   == LeadingUps(parts)
    IN  IF IsAbsolute(filename)
        THEN [where |-> "outside", path |-> <<"/">> \o parts]
        ELSE IF Len(parts) = 1 /\ ups = 0
             THEN [where |-> "scratch", name |-> parts[1]]
        ELSE IF Len(parts) = ups + 1
             THEN [where |-> "outside", path |-> parts]
        ELSE [where |-> "error", exc |-> "FileNotFoundError"]

\* convert_to_arg, line 293
convert_to_arg(r) ==
    IF filter_name(r) # ""
    THEN <<output_ext(r), ":", filter_name(r)>>
    ELSE <<output_ext(r)>>

\* list(Path(tmpdir).glob("*.<output_ext>")), as the set of entries
output_files(r) == {f \in scratch[r].files : GlobMatch(f.name, output_ext(r))}

(***************************************************************************)
(* The engine's error stream: bytes, and bytes.decode()                    *)
(***************************************************************************)

IsAscii(b) == b < 128

IsLead2(b) == 194 <= b /\ b <= 223

IsCont(b) == 128 <= b /\ b <= 191

\* every byte is an ASCII byte or part of a two-byte UTF-8 sequence
Decodable(bytes) ==
    \A i \in 1..Len(bytes) :
        \/ IsAscii(bytes[i])
        \/ IsLead2(bytes[i]) /\ i < Len(bytes) /\ IsCont(bytes[i + 1])
        \/ IsCont(bytes[i]) /\ 1 < i /\ IsLead2(bytes[i - 1])

\* bytes.decode() of a decodable stream: one code point per character
decode(bytes) ==
    LET idx    == [i \in 1..Len(bytes) |-> i]
        starts == SelectSeq(idx, LAMBDA i : ~IsCont(bytes[i]))
    IN  [k \in 1..Len(starts) |->
            IF IsAscii(bytes[starts[k]])
            THEN bytes[starts[k]]
            ELSE (bytes[starts[k]] - 192) * 64 + (bytes[starts[k] + 1] - 128)]

\* text[:n]
Slice(text, n) == SubSeq(text, 1, IF Len(text) < n THEN Len(text) ELSE n)

(***************************************************************************)
(* log_event                                                               *)
(***************************************************************************)

\* log_event("conversion_timeout", ...), lines 305-311
TimeoutEvent(r) ==
    [event |-> "conversion_timeout",
     input_format |-> input_ext(r),
     output_format |-> output_ext(r),
     input_size_bytes |-> input_size(r),
     client_ip |-> client_ip(r)]

\* log_event("conversion_error", ...), lines 315-321
ErrorEvent(r, text) ==
    [event |-> "conversion_error",
     input_format |-> input_ext(r),
     output_format |-> output_ext(r),
     error |-> Slice(text, ERROR_LOG_CHARS),
     client_ip |-> client_ip(r)]

\* log_event("conversion_complete", ...), lines 335-343
CompleteEvent(r, content) ==
    [event |-> "conversion_complete",
     input_format |-> input_ext(r),
     output_format |-> output_ext(r),
     input_size_bytes |-> input_size(r),
     output_size_bytes |-> content.len,
     duration_ms |-> "elapsed",
     client_ip |-> client_ip(r)]

(***************************************************************************)
(* The handler, from one suspension of the coroutine to the next.  A run   *)
(* of the coroutine is the sequence of its effects in program order; the   *)
(* semaphore and the scratch directory change as the effects say.          *)
(***************************************************************************)

Count(effects, e) == Cardinality({i \in 1..Len(effects) : effects[i] = e})

\* the semaphore after the effects of one run of the coroutine
RECURSIVE SemAfter(_, _)
SemAfter(sem, effects) ==
    IF effects = <<>> THEN sem
    ELSE SemAfter(IF Head(effects) = "acquire" THEN acquire_now(sem)
                  ELSE IF Head(effects) = "release" THEN release(sem)
                  ELSE sem,
                  Tail(effects))

\* the scratch directory after the effects of one run of the coroutine;
\* staged is what "stage" writes into it
RECURSIVE DirAfter(_, _, _)
DirAfter(dir, effects, staged) ==
    IF effects = <<>> THEN dir
    ELSE DirAfter(IF Head(effects) = "mkdtemp" THEN [exists |-> TRUE, files |-> {}]
                  ELSE IF Head(effects) = "stage" THEN [dir EXCEPT !.files = @ \cup staged]
                  ELSE IF Head(effects) = "rmtree" THEN NoDir
                  ELSE dir,
                  Tail(effects), staged)

\* where the coroutine stands after a run: suspended on the semaphore, on
\* the executor future, or finished
PcAfter(effects) ==
    LET last == effects[Len(effects)]
    IN  IF last = "wait" THEN "waiting"
        ELSE IF last = "submit" THEN "submitted"
        ELSE "done"

\* a scratch directory made with mkdtemp() and never removed
Unwind_KeepsDir == <<"release">>

\* leaving "with tempfile.TemporaryDirectory()" and then "async with
\* conversion_semaphore", by return or by exception
Unwind == <<"rmtree", "release">>

\* a size check made inside the block, once the input is about to be staged
TooLargePath_InBlock ==
    <<"admit", "acquire", "mkdtemp", "size", "raise", "rmtree", "release", "respond">>

\* lines 272-276: the payload is too large
TooLargePath == <<"size", "raise", "respond">>

\* lines 281-284: no permit is free
RejectedPath == <<"size", "admit", "raise", "respond">>

\* line 286 when the semaphore is locked: the coroutine queues for a permit
WaitPath == <<"size", "admit", "wait">>

\* lines 286-290 when open() raises
StageFailedPath == <<"acquire", "mkdtemp", "raise">> \o Unwind \o <<"respond">>

\* lines 286-303 up to the await of the executor future
SubmitPath == <<"acquire", "mkdtemp", "stage", "submit">>

\* lines 304-312 and 314-322: the outcome is logged, then raised
LoggedFailurePath == <<"log", "raise">> \o Unwind \o <<"respond">>

\* acquire() and release() called by hand, the release skipped by the raise
FailurePath_Leaks == <<"raise", "rmtree", "respond">>

\* line 327, or an exception no except clause names
FailurePath == <<"raise">> \o Unwind \o <<"respond">>

\* lines 329-350
SuccessPath == <<"read_output">> \o Unwind \o <<"log", "respond">>

\* Response(content=..., media_type=..., headers=...), lines 345-350
Response(r, content) ==
    [kind |-> "response", status |-> 200, content |-> content,
     media_type |-> mime_type(r),
     filename |-> PathStem(req[r].filename) \o <<".">> \o output_ext(r)]

\* lines 304-350 once the executor future is done: every way the handler can
\* finish, as the response, the events logged and the effects in program order
Conclusions(r) ==
    LET res == result[r]
    IN  IF res.kind = "timeout"
        THEN {[resp |-> HTTPException(504, [msg |-> "Conversion timed out"]),
               logged |-> <<TimeoutEvent(r)>>,
               effects |-> LoggedFailurePath]}
        ELSE IF res.kind = "oserror"
        THEN {[resp |-> InternalServerError("OSError"),
               logged |-> <<>>,
               effects |-> FailurePath]}
        ELSE IF res.returncode # 0
        THEN IF ~Decodable(res.stderr)
             THEN {[resp |-> InternalServerError("UnicodeDecodeError"),
                    logged |-> <<>>,
                    effects |-> FailurePath]}
             ELSE {[resp |-> HTTPException(500,
                               [msg |-> "Conversion failed",
                                error |-> decode(res.stderr)]),
                    logged |-> <<ErrorEvent(r, decode(res.stderr))>>,
                    effects |-> LoggedFailurePath]}
        ELSE IF output_files(r) = {}
        THEN {[resp |-> HTTPException(500, [msg |-> "Conversion produced no output"]),
               logged |-> <<>>,
               effects |-> FailurePath]}
        ELSE {[resp |-> Response(r, f.content),
               logged |-> <<CompleteEvent(r, f.content)>>,
               effects |-> SuccessPath]
              : f \in output_files(r)}

\* one run of the coroutine of r with the given effects, from semaphore sem:
\* the response it sends (NoResp while suspended) and the events it logs
Run(r, sem, effects, response, logged) ==
    LET target == StageTarget(req[r].filename)
        staged == IF target.where = "scratch"
                  THEN {[name |-> target.name, content |-> req[r].content]}
                  ELSE {}
    IN  /\ conversion_semaphore' = SemAfter(sem, effects)
        /\ scratch' = [scratch EXCEPT ![r] = DirAfter(@, effects, staged)]
        /\ outside' = IF Count(effects, "stage") > 0 /\ target.where = "outside"
                      THEN outside \cup {target.path} ELSE outside
        /\ pc' = [pc EXCEPT ![r] = PcAfter(effects)]
        /\ resp' = [resp EXCEPT ![r] = response]
        /\ events' = [events EXCEPT ![r] = @ \o logged]
        /\ trace' = [trace EXCEPT ![r] = @ \o effects]

\* lines 286-303: the block entered with a permit, up to the await of the
\* executor future
EnterBlock(r, sem, before) ==
    LET target == StageTarget(req[r].filename)
    IN  IF target.where = "error"
        THEN Run(r, sem, before \o StageFailedPath,
                 InternalServerError(target.exc), <<>>)
        ELSE Run(r, sem, before \o SubmitPath, NoResp, <<>>)

\* a size check that refuses a payload of exactly the maximum
TooLarge_Inclusive(r) == input_size(r) >= MAX_FILE_SIZE

\* line 272: input_size > config.MAX_FILE_SIZE
TooLarge(r) == input_size(r) > MAX_FILE_SIZE

\* lines 269-286: after "await file.read()", the size check and admission
AfterRead(r) ==
    IF TooLarge(r)
    THEN Run(r, conversion_semaphore, TooLargePath,
             HTTPException(413, [msg |-> "File too large",
                                 size |-> input_size(r),
                                 max |-> MAX_FILE_SIZE]), <<>>)
    ELSE IF AdmissionRejects(conversion_semaphore)
    THEN Run(r, conversion_semaphore, RejectedPath,
             HTTPException(429, [msg |-> "Too many concurrent requests"]), <<>>)
    ELSE IF ~locked(conversion_semaphore)
    THEN EnterBlock(r, conversion_semaphore, <<"size", "admit">>)
    ELSE Run(r, acquire_wait(conversion_semaphore, r), WaitPath, NoResp, <<>>)

\* line 286 resumed: the permit handed over by release() is taken
AfterWait(r) ==
    EnterBlock(r, wake_up_granted(acquire_resume(conversion_semaphore, r)), <<>>)

\* lines 304-350: the coroutine resumes with the executor future done
Conclude(r) ==
    \E c \in Conclusions(r) :
        Run(r, conversion_semaphore, c.effects, c.resp, c.logged)

(***************************************************************************)
(* Actions                                                                 *)
(***************************************************************************)

\* the process after import and lifespan startup, API_AUTH_ENABLED being one
\* of Settings
Start(Settings) ==
    /\ CONVERSIONS = CONVERSIONS_TABLE
    /\ auth_enabled \in Settings
    /\ conversion_semaphore = NewSemaphore
    /\ workers = [w \in OtherWorkers |-> NewWorker]
    /\ pc = [r \in Reqs |-> "idle"]
    /\ req = [r \in Reqs |-> NoReq]
    /\ locals = [r \in Reqs |-> NoLocals]
    /\ scratch = [r \in Reqs |-> NoDir]
    /\ outside = {}
    /\ proc = [r \in Reqs |-> "none"]
    /\ result = [r \in Reqs |-> NoResult]
    /\ resp = [r \in Reqs |-> NoResp]
    /\ events = [r \in Reqs |-> <<>>]
    /\ trace = [r \in Reqs |-> <<>>]

\* a request q arrives: verify_auth, then convert up to "await file.read()"
Arrive(r, Incoming) ==
    /\ pc[r] = "idle"
    /\ \E q \in Incoming :
        LET denied  == verify_auth(q.credentials)
            invalid == ValidateFormats(q)
        IN  /\ req' = [req EXCEPT ![r] = q]
            /\ IF denied.kind # "none"
               THEN /\ pc' = [pc EXCEPT ![r] = "done"]
                    /\ resp' = [resp EXCEPT ![r] = denied]
                    /\ trace' = [trace EXCEPT ![r] = <<"auth", "respond">>]
                    /\ UNCHANGED locals
               ELSE IF invalid.kind # "none"
               THEN /\ pc' = [pc EXCEPT ![r] = "done"]
                    /\ resp' = [resp EXCEPT ![r] = invalid]
                    /\ trace' = [trace EXCEPT ![r] = <<"auth", "validate", "respond">>]
                    /\ UNCHANGED locals
               ELSE /\ pc' = [pc EXCEPT ![r] = "reading"]
                    /\ locals' = [locals EXCEPT ![r] =
                                     [kind |-> "convert",
                                      client_ip |-> q.client,
                                      input_ext |-> get_input_ext(q.filename).ext,
                                      output_ext |-> OutputExtOf(q.to)]]
                    /\ trace' = [trace EXCEPT ![r] = <<"auth", "validate", "read">>]
                    /\ UNCHANGED resp
    /\ UNCHANGED <<CONVERSIONS, auth_enabled, workers, conversion_semaphore, scratch,
                   outside, proc, result, events>>

\* GET /formats, lines 353-356: verify_auth, then the inputs of the matrix
\* with the outputs of each (the keys of each inner dict)
ListFormats(r, Callers) ==
    /\ pc[r] = "idle"
    /\ \E c \in Callers :
        LET denied == verify_auth(c)
        IN  /\ req' = [req EXCEPT ![r] = [kind |-> "formats", credentials |-> c]]
            /\ IF denied.kind # "none"
               THEN /\ resp' = [resp EXCEPT ![r] = denied]
                    /\ trace' = [trace EXCEPT ![r] = <<"auth", "respond">>]
               ELSE /\ resp' = [resp EXCEPT ![r] =
                                   [kind |-> "response", status |-> 200,
                                    content |-> [e \in DOMAIN CONVERSIONS |->
                                                   DOMAIN CONVERSIONS[e]]]]
                    /\ trace' = [trace EXCEPT ![r] = <<"auth", "list", "respond">>]
    /\ pc' = [pc EXCEPT ![r] = "done"]
    /\ UNCHANGED <<CONVERSIONS, auth_enabled, workers, conversion_semaphore, locals,
                   scratch, outside, proc, result, events>>

\* GET /health, lines 359-362: no dependency on verify_auth
Health(r, Callers) ==
    /\ pc[r] = "idle"
    /\ \E c \in Callers :
        req' = [req EXCEPT ![r] = [kind |-> "health", credentials |-> c]]
    /\ resp' = [resp EXCEPT ![r] =
                   [kind |-> "response", status |-> 200,
                    content |-> [status |-> "ok"]]]
    /\ trace' = [trace EXCEPT ![r] = <<"respond">>]
    /\ pc' = [pc EXCEPT ![r] = "done"]
    /\ UNCHANGED <<CONVERSIONS, auth_enabled, workers, conversion_semaphore, locals,
                   scratch, outside, proc, result, events>>

\* the event loop resumes the coroutine of r, whose awaited future is done
Resume(r) ==
    /\ pc[r] \in {"reading", "waiting", "finished"}
    /\ pc[r] = "waiting" => Woken(conversion_semaphore, r)
    /\ IF pc[r] = "reading" THEN AfterRead(r)
       ELSE IF pc[r] = "waiting" THEN AfterWait(r)
       ELSE Conclude(r)
    /\ UNCHANGED <<CONVERSIONS, auth_enabled, workers, req, locals, proc, result>>

\* the executor thread runs subprocess.run: the engine is spawned, or Popen
\* raises OSError
EngineStart(r) ==
    /\ pc[r] = "submitted"
    /\ \E spawned \in BOOLEAN :
        IF spawned
        THEN /\ proc' = [proc EXCEPT ![r] = "running"]
             /\ pc' = [pc EXCEPT ![r] = "running"]
             /\ trace' = [trace EXCEPT ![r] = Append(@, "spawn")]
             /\ UNCHANGED result
        ELSE /\ result' = [result EXCEPT ![r] = [kind |-> "oserror"]]
             /\ pc' = [pc EXCEPT ![r] = "finished"]
             /\ UNCHANGED <<proc, trace>>
    /\ UNCHANGED <<CONVERSIONS, auth_enabled, workers, conversion_semaphore, req, locals,
                   scratch, outside, resp, events>>

\* the engine exits within the timeout, having written the files of b
EngineExit(r, Behaviours) ==
    /\ pc[r] = "running"
    /\ \E b \in Behaviours :
        /\ scratch' = [scratch EXCEPT ![r].files =
                          {f \in @ : \A w \in b.writes : w.name # f.name}
                              \cup b.writes]
        /\ result' = [result EXCEPT ![r] =
                         [kind |-> "completed", returncode |-> b.returncode,
                          stderr |-> b.stderr]]
    /\ proc' = [proc EXCEPT ![r] = "exited"]
    /\ pc' = [pc EXCEPT ![r] = "finished"]
    /\ trace' = [trace EXCEPT ![r] = Append(@, "exit")]
    /\ UNCHANGED <<CONVERSIONS, auth_enabled, workers, conversion_semaphore, req, locals,
                   outside, resp, events>>

\* a timeout on the future alone: the wait is abandoned, the engine runs on
EngineTimeout_Abandons(r) ==
    /\ pc[r] = "running"
    /\ result' = [result EXCEPT ![r] = [kind |-> "timeout"]]
    /\ pc' = [pc EXCEPT ![r] = "finished"]
    /\ trace' = [trace EXCEPT ![r] = Append(@, "timeout")]
    /\ UNCHANGED <<CONVERSIONS, auth_enabled, workers, conversion_semaphore, req, locals,
                   scratch, outside, proc, resp, events>>

\* config.TIMEOUT elapses first: subprocess.run kills the engine, waits for
\* it and raises TimeoutExpired
EngineTimeout(r) ==
    /\ pc[r] = "running"
    /\ proc' = [proc EXCEPT ![r] = "killed"]
    /\ result' = [result EXCEPT ![r] = [kind |-> "timeout"]]
    /\ pc' = [pc EXCEPT ![r] = "finished"]
    /\ trace' = [trace EXCEPT ![r] = Append(@, "kill")]
    /\ UNCHANGED <<CONVERSIONS, auth_enabled, workers, conversion_semaphore, req, locals,
                   scratch, outside, resp, events>>

\* the response has reached the client; the slot serves the next request
Deliver(r) ==
    /\ pc[r] = "done"
    /\ pc' = [pc EXCEPT ![r] = "idle"]
    /\ req' = [req EXCEPT ![r] = NoReq]
    /\ locals' = [locals EXCEPT ![r] = NoLocals]
    /\ proc' = [proc EXCEPT ![r] = "none"]
    /\ result' = [result EXCEPT ![r] = NoResult]
    /\ resp' = [resp EXCEPT ![r] = NoResp]
    /\ events' = [events EXCEPT ![r] = <<>>]
    /\ trace' = [trace EXCEPT ![r] = <<>>]
    /\ UNCHANGED <<CONVERSIONS, auth_enabled, workers, conversion_semaphore, scratch, outside>>

\* lines 281-303 in another worker: a request passes the admission check of
\* that worker's semaphore, takes a permit and has its engine started
WorkerAdmit(w) ==
    /\ ~AdmissionRejects(workers[w].conversion_semaphore)
    /\ workers' = [workers EXCEPT ![w] =
                      [conversion_semaphore |-> acquire_now(@.conversion_semaphore),
                       engines |-> @.engines + 1]]
    /\ UNCHANGED <<CONVERSIONS, auth_enabled, conversion_semaphore, pc, req, locals,
                   scratch, outside, proc, result, resp, events, trace>>

\* lines 304-350 in another worker: the engine of one of its jobs has ended
\* and the job leaves the block
WorkerFinish(w) ==
    /\ workers[w].engines > 0
    /\ workers' = [workers EXCEPT ![w] =
                      [conversion_semaphore |-> release(@.conversion_semaphore),
                       engines |-> @.engines - 1]]
    /\ UNCHANGED <<CONVERSIONS, auth_enabled, conversion_semaphore, pc, req, locals,
                   scratch, outside, proc, result, resp, events, trace>>

(***************************************************************************)
(* Requests and engine behaviours the model draws from                     *)
(***************************************************************************)

\* file names of uploads: Filenames[k]
Filenames ==
    {
     <<"r","e","p","o","r","t",".","d","o","c","x">>,   \* report.docx
     <<"R","e","p","o","r","t",".","D","O","C","X">>,   \* Report.DOCX
     <<"a",".","b",".","d","o","c","x">>,   \* a.b.docx
     <<".","d","o","c","x">>,   \* .docx
     <<"x",".">>,   \* x.
     <<"n","o","t","e","s">>,   \* notes
     <<"s","h","e","e","t",".","x","l","s","x">>,   \* sheet.xlsx
     <<"d","a","t","a",".","c","s","v">>,   \* data.csv
     <<"s","u","b","/","x",".","d","o","c","x">>,   \* sub/x.docx
     <<"/","t","m","p","/","x",".","d","o","c","x">>,   \* /tmp/x.docx
     <<".",".","/","x",".","d","o","c","x">>,   \* ../x.docx
     <<".","/","x",".","d","o","c","x">>,   \* ./x.docx
     <<"a",".","p","d","f",".","d","o","c","x">>,   \* a.pdf.docx
     <<"x",".","p","d","f">>,   \* x.pdf
     <<"x",".","d","o","c">>,   \* x.doc
     <<"d","e","c","k",".","P","P","T">>   \* deck.PPT
     ,<<>>   \* no file name
    }

\* values of the query parameter "to"
Targets ==
    {
     <<"p","d","f">>,   \* pdf
     <<"P","D","F">>,   \* PDF
     <<".","p","d","f">>,   \* .pdf
     <<".",".","P","d","f">>,   \* ..Pdf
     <<"x","l","s","x">>,   \* xlsx
     <<"X","L","S","X">>,   \* XLSX
     <<"p","p","t","x">>,   \* pptx
     <<"d","o","c","x">>,   \* docx
     <<"d","o","c">>,   \* doc
     <<"p",".","d","f">>,   \* p.df
     <<"c","s","v">>,   \* csv
     <<"o","d","t">>,   \* odt
     <<>>   \* empty
    }

\* the Authorization header: absent, a wrong bearer token, the configured one
NoCredentials == [present |-> FALSE, credentials |-> ""]

WrongCredentials == [present |-> TRUE, credentials |-> "guess"]

GoodCredentials == [present |-> TRUE, credentials |-> AUTH_TOKEN]

Credentials == {NoCredentials, WrongCredentials, GoodCredentials}

\* an uploaded payload of n bytes
Upload(n) == [len |-> n, data |-> "upload"]

Request(credentials, filename, to, n) ==
    [kind |-> "convert", credentials |-> credentials, filename |-> filename,
     to |-> to, content |-> Upload(n), client |-> "client"]

\* the requests of the concurrent specification: one for each status the
\* handler answers with before the engine runs, and two that reach the engine
FewRequests ==
    {Request(GoodCredentials, <<"r","e","p","o","r","t",".","d","o","c","x">>, <<"p","d","f">>, MAX_FILE_SIZE),
     Request(NoCredentials, <<"r","e","p","o","r","t",".","d","o","c","x">>, <<"p","d","f">>, 1),
     Request(GoodCredentials, <<"r","e","p","o","r","t",".","d","o","c","x">>, <<"p","d","f">>, MAX_FILE_SIZE + 1),
     Request(GoodCredentials, <<"s","h","e","e","t",".","x","l","s","x">>, <<"X","L","S","X">>, MAX_FILE_SIZE + 1),
     Request(GoodCredentials, <<"s","u","b","/","x",".","d","o","c","x">>, <<"p","d","f">>, 1)}

\* the requests of the fair specification: those that pass validation
AdmittedRequests ==
    {q \in FewRequests :
        /\ q.credentials = GoodCredentials
        /\ q.filename \in {<<"r","e","p","o","r","t",".","d","o","c","x">>, <<"s","u","b","/","x",".","d","o","c","x">>}
        /\ q.content.len <= MAX_FILE_SIZE}

\* the requests of the single-request specification
ManyRequests ==
    {Request(c, f, t, n) :
        c \in {NoCredentials, WrongCredentials, GoodCredentials},
        f \in Filenames, t \in Targets,
        n \in {0, MAX_FILE_SIZE, MAX_FILE_SIZE + 1}}

\* a file the engine writes
Converted(name, data) == [name |-> name, content |-> [len |-> 3, data |-> data]]

\* the name LibreOffice gives the converted file of request r
OutputName(r) == PathStem(req[r].filename) \o <<".">> \o output_ext(r)

\* n bytes "E"
ErrBytes(n) == [i \in 1..n |-> 69]

\* the engine's ways to end in the concurrent specification
FewBehaviours(r) ==
    {[returncode |-> 0, stderr |-> <<>>, writes |-> {Converted(OutputName(r), "pdf-1")}],
     [returncode |-> 0, stderr |-> <<>>, writes |-> {}],
     [returncode |-> 1, stderr |-> ErrBytes(3), writes |-> {}]}

\* the engine's ways to end in the single-request specification
ManyBehaviours(r) ==
    FewBehaviours(r) \cup
    {[returncode |-> 0, stderr |-> ErrBytes(2),
      writes |-> {Converted(OutputName(r), "pdf-1"),
                  Converted(<<"c", "o", "p", "y", ".">> \o output_ext(r), "pdf-2")}],
     [returncode |-> 0, stderr |-> <<>>,
      writes |-> {Converted(PathStem(req[r].filename) \o <<".", "t", "m", "p">>, "tmp")}],
     [returncode |-> 0, stderr |-> <<>>,
      writes |-> {Converted(PathName(req[r].filename), "pdf-1")}],
     [returncode |-> 1, stderr |-> ErrBytes(ERROR_LOG_CHARS), writes |-> {}],
     [returncode |-> 1, stderr |-> ErrBytes(ERROR_LOG_CHARS + 1),
      writes |-> {Converted(OutputName(r), "pdf-1")}],
     [returncode |-> 1, stderr |-> ErrBytes(ERROR_LOG_CHARS - 1) \o <<195, 169, 69>>,
      writes |-> {}],
     [returncode |-> 1, stderr |-> <<69, 255>>, writes |-> {}]}

(***************************************************************************)
(* Specifications                                                          *)
(***************************************************************************)

\* NumRequests coroutines of /convert on one event loop, authentication on
Init == Start({TRUE})

Next ==
    \E r \in Reqs :
        \/ Arrive(r, FewRequests)
        \/ Resume(r)
        \/ EngineStart(r)
        \/ EngineExit(r, FewBehaviours(r))
        \/ EngineTimeout(r)
        \/ Deliver(r)

Spec == Init /\ [][Next]_vars

\* one request at a time, over every file name, target, size and engine
\* behaviour of the model, authentication on or off
InitOne == Start(BOOLEAN)

NextOne ==
    \/ Arrive(1, ManyRequests)
    \/ ListFormats(1, Credentials)
    \/ Health(1, Credentials)
    \/ Resume(1)
    \/ EngineStart(1)
    \/ EngineExit(1, ManyBehaviours(1))
    \/ EngineTimeout(1)
    \/ Deliver(1)

SpecOne == InitOne /\ [][NextOne]_vars

\* the service as gunicorn deploys it: NumWorkers worker processes
NextWorkers ==
    \/ \E r \in Reqs :
          \/ Arrive(r, AdmittedRequests)
          \/ Resume(r)
          \/ EngineStart(r)
          \/ EngineExit(r, FewBehaviours(r))
          \/ EngineTimeout(r)
          \/ Deliver(r)
    \/ \E w \in OtherWorkers :
          \/ WorkerAdmit(w)
          \/ WorkerFinish(w)

SpecWorkers == Init /\ [][NextWorkers]_vars

\* the executor thread and the event loop make progress: a submitted job is
\* started, a running engine exits or is killed at the timeout, and a
\* coroutine whose future is done is resumed (for one request these steps
\* are enabled one at a time)
FairSlots == 2

FairReqs == 1..FairSlots

Progress(r) ==
    \/ EngineStart(r)
    \/ EngineExit(r, FewBehaviours(r))
    \/ EngineTimeout(r)
    \/ Resume(r)

Fairness == \A r \in FairReqs : WF_vars(Progress(r))

\* FairSlots coroutines serving the requests that reach admission, under fair
\* scheduling
NextFair ==
    \E r \in FairReqs :
        \/ Arrive(r, AdmittedRequests)
        \/ Resume(r)
        \/ EngineStart(r)
        \/ EngineExit(r, FewBehaviours(r))
        \/ EngineTimeout(r)
        \/ Deliver(r)

FairSpec == Init /\ [][NextFair]_vars /\ Fairness

(***************************************************************************)
(* Properties                                                              *)
(***************************************************************************)

\* the position of the first effect e in a trace, 0 when absent
Pos(tr, e) ==
    LET at == SelectSeq([i \in 1..Len(tr) |-> i], LAMBDA i : tr[i] = e)
    IN  IF at = <<>> THEN 0 ELSE at[1]

\* effect a happened, and effect b happened after it
Before(tr, a, b) == Pos(tr, a) > 0 /\ Pos(tr, a) < Pos(tr, b)

Done(r) == pc[r] = "done"

Status(r) == IF resp[r].kind = "none" THEN 0 ELSE resp[r].status

\* the request took a permit
Admitted(r) == Count(trace[r], "acquire") > 0

\* C1: the permits held never exceed MAX_CONCURRENT, and the semaphore's
\* counter is MAX_CONCURRENT minus the permits held, within 0..MAX_CONCURRENT
C1_PermitAccounting ==
    /\ Cardinality(Holders) <= MAX_CONCURRENT
    /\ conversion_semaphore.value = MAX_CONCURRENT - Cardinality(Holders)
    /\ conversion_semaphore.value >= 0
    /\ conversion_semaphore.value <= MAX_CONCURRENT

\* every permit is out while an earlier job has already returned its own
C1_Witness ==
    /\ Cardinality(Holders) = MAX_CONCURRENT
    /\ conversion_semaphore.value = 0
    /\ \E r \in Reqs : Done(r) /\ Count(trace[r], "release") = 1

\* a validated request of acceptable size is about to be resumed at the
\* admission decision
AtAdmission(r) == pc[r] = "reading" /\ input_size(r) <= MAX_FILE_SIZE

\* C2: a request at the admission decision is answered 429 exactly when
\* MAX_CONCURRENT permits are held at that moment; otherwise it takes a permit
C2_AdmissionDecision ==
    [][\A r \in Reqs :
          (AtAdmission(r) /\ pc'[r] # "reading") =>
              IF Cardinality(Holders) = MAX_CONCURRENT
              THEN /\ pc'[r] = "done"
                   /\ resp'[r].status = 429
                   /\ Count(trace'[r], "acquire") = 0
                   /\ conversion_semaphore' = conversion_semaphore
              ELSE /\ Count(trace'[r], "acquire") = 1
                   /\ resp'[r].kind = "none" \/ resp'[r].status # 429]_vars

\* one request has been turned away while MAX_CONCURRENT others hold their
\* permits
C2_Witness ==
    /\ Cardinality(Holders) = MAX_CONCURRENT
    /\ \E r \in Reqs : Done(r) /\ Status(r) = 429

\* C3: a permit is released at most once and never without having been
\* acquired; the semaphore is full again whenever no job holds a permit; and,
\* the scheduling being fair, every job that holds a permit finishes with
\* its one permit released once
C3_PermitReleased ==
    /\ [](\A r \in FairReqs :
            /\ Count(trace[r], "release") <= Count(trace[r], "acquire")
            /\ Count(trace[r], "acquire") <= 1
            /\ Done(r) => Count(trace[r], "release") = Count(trace[r], "acquire"))
    /\ [](Holders = {} => conversion_semaphore.value = MAX_CONCURRENT)
    /\ \A r \in FairReqs :
          (r \in Holders) ~> (Done(r) /\ Count(trace[r], "release") = 1)

\* a job that found no output file has ended, its permit returned
C3_Witness ==
    \E r \in FairReqs :
        /\ Done(r)
        /\ result[r].kind = "completed" /\ result[r].returncode = 0
        /\ Status(r) = 500
        /\ Count(trace[r], "release") = 1
        /\ conversion_semaphore.value = MAX_CONCURRENT

\* C4: a scratch directory exists only while its job holds a permit; when an
\* admitted job has ended, on whatever path, its scratch directory is gone,
\* having been removed before the permit was released and before the
\* response was sent
C4_ScratchRemoved ==
    \A r \in Reqs :
        /\ scratch[r].exists => r \in Holders
        /\ (Done(r) /\ Admitted(r)) =>
              /\ scratch[r] = NoDir
              /\ Count(trace[r], "mkdtemp") = 1
              /\ Count(trace[r], "rmtree") = 1
              /\ Before(trace[r], "mkdtemp", "rmtree")
              /\ Before(trace[r], "rmtree", "release")
              /\ Before(trace[r], "rmtree", "respond")

\* a conversion has succeeded and its scratch directory is gone
C4_Witness ==
    \E r \in Reqs :
        Done(r) /\ Status(r) = 200 /\ Count(trace[r], "rmtree") = 1 /\ scratch[r] = NoDir

\* the response is a validation or admission failure
EarlyFailure(x) == x.kind = "error" /\ x.status \in {400, 413, 429}

\* C5: a request that fails validation or admission has taken no permit,
\* made no scratch directory and spawned no engine, and its failure leaves
\* the semaphore, the scratch directories and the engines as they were;
\* validation precedes admission, which precedes the executor's work
C5_EarlyFailureTouchesNothing ==
    /\ [](\A r \in Reqs :
            /\ (Done(r) /\ EarlyFailure(resp[r])) =>
                  /\ Count(trace[r], "acquire") = 0
                  /\ Count(trace[r], "mkdtemp") = 0
                  /\ Count(trace[r], "spawn") = 0
                  /\ proc[r] = "none"
                  /\ scratch[r] = NoDir
            /\ Done(r) =>
                  /\ Pos(trace[r], "size") > 0 => Before(trace[r], "validate", "size")
                  /\ Pos(trace[r], "admit") > 0 => Before(trace[r], "size", "admit")
                  /\ Pos(trace[r], "acquire") > 0 => Before(trace[r], "admit", "acquire")
                  /\ Pos(trace[r], "mkdtemp") > 0 => Before(trace[r], "acquire", "mkdtemp")
                  /\ Pos(trace[r], "spawn") > 0 => Before(trace[r], "mkdtemp", "spawn"))
    /\ [][\A r \in Reqs :
            (~Done(r) /\ pc'[r] = "done" /\ EarlyFailure(resp'[r])) =>
                UNCHANGED <<conversion_semaphore, scratch, outside, proc>>]_vars

\* an oversized payload has been refused while another job is converting
C5_Witness ==
    \E r \in Reqs :
        /\ Done(r) /\ Status(r) = 413
        /\ \E o \in Reqs : proc[o] = "running"

\* the request has come to the admission decision of lines 281-284
ReachedAdmission(r) == Count(trace[r], "admit") = 1

\* the request has ended as Rejected, Timeout, EngineError, NoOutput or
\* Success
OutcomeReached(r) ==
    /\ Done(r)
    /\ \/ Status(r) = 429
       \/ result[r].kind \in {"timeout", "completed"}

\* C6: every request that reaches the admission decision and ends as
\* Rejected, Timeout, EngineError, NoOutput or Success has logged exactly one
\* outcome event by the time it is answered, and no request ever logs more
\* than one
C6_ExactlyOneEvent ==
    \A r \in Reqs :
        /\ Len(events[r]) <= 1
        /\ (ReachedAdmission(r) /\ OutcomeReached(r)) => Len(events[r]) = 1

\* C7: an engine runs only while its job holds its permit and its scratch
\* directory; a job whose engine outlived the timeout has had the engine
\* killed, and ends with 504 and its scratch directory removed, the kill
\* coming before the removal, the release of the permit and the response
C7_TimeoutKillsEngine ==
    \A r \in Reqs :
        /\ proc[r] = "running" => (r \in Holders /\ scratch[r].exists)
        /\ result[r].kind = "timeout" => proc[r] = "killed"
        /\ (Done(r) /\ result[r].kind = "timeout") =>
              /\ resp[r] = HTTPException(504, [msg |-> "Conversion timed out"])
              /\ scratch[r] = NoDir
              /\ Before(trace[r], "spawn", "kill")
              /\ Before(trace[r], "kill", "rmtree")
              /\ Before(trace[r], "kill", "release")
              /\ Before(trace[r], "kill", "respond")

\* a job has ended with 504 while another engine is still within its time
C7_Witness ==
    \E r \in Reqs :
        /\ Done(r) /\ Status(r) = 504 /\ proc[r] = "killed"
        /\ scratch[r] = NoDir
        /\ \E o \in Reqs : proc[o] = "running"

\* the files of the scratch directory of r that are not the staged upload
EngineWrote(r) == {f \in scratch[r].files : f.content # req[r].content}

\* the staged upload, while it lies in the scratch directory of r
StagedInput(r) == {f \in scratch[r].files : f.content = req[r].content}

\* the response of the handler when no output file is found
NoOutputProduced == HTTPException(500, [msg |-> "Conversion produced no output"])

\* names an upload of extension e may have, given the target t
NamesFor(e, t) ==
    {<<"x", ".">> \o e,
     <<"x", ".">> \o t \o <<".">> \o e,
     <<".">> \o t \o <<".">> \o e,
     t \o <<".">> \o e}

\* for every declared pair the staged name is accepted as an input of
\* extension e and does not match the pattern of the output
StagedNeverMatches ==
    \A e \in DOMAIN CONVERSIONS_TABLE :
        \A t \in DOMAIN CONVERSIONS_TABLE[e] :
            \A name \in NamesFor(e, t) :
                /\ InputExtOf(name) = e
                /\ StageTarget(name) = [where |-> "scratch", name |-> name]
                /\ ~GlobMatch(name, t)

\* C8: when the engine has exited with status 0 and has written no file of
\* the requested extension, the handler answers NoOutputProduced and removes
\* the scratch directory; the staged input never matches the output pattern
\* and its bytes are never those of a successful response
C8_NoOutputProduced ==
    /\ [](/\ CONVERSIONS = CONVERSIONS_TABLE /\ StagedNeverMatches
          /\ \A f \in StagedInput(1) :
                locals[1].kind = "convert" => ~GlobMatch(f.name, output_ext(1))
          /\ (req[1].kind = "convert" /\ Status(1) = 200) =>
                resp[1].content # req[1].content)
    /\ [][(/\ pc[1] = "finished" /\ pc'[1] = "done"
           /\ result[1].kind = "completed" /\ result[1].returncode = 0
           /\ \A f \in EngineWrote(1) :
                 PathSuffix(f.name) # <<".">> \o output_ext(1))
          => /\ resp'[1] = NoOutputProduced
             /\ scratch'[1] = NoDir
             /\ Before(trace'[1], "rmtree", "respond")]_vars

\* a.pdf.docx was to become a pdf: the engine exited with status 0 and wrote
\* nothing, and the job ended with NoOutputProduced
C8_Witness ==
    /\ Done(1)
    /\ req[1].kind = "convert"
    /\ req[1].filename = <<"a", ".", "p", "d", "f", ".", "d", "o", "c", "x">>
    /\ locals[1].kind = "convert"
    /\ output_ext(1) = <<"p", "d", "f">>
    /\ result[1].kind = "completed" /\ result[1].returncode = 0
    /\ resp[1] = NoOutputProduced
    /\ Count(trace[1], "rmtree") = 1 /\ scratch[1] = NoDir

\* s is the first characters of t
IsPrefix(s, t) == Len(s) <= Len(t) /\ SubSeq(t, 1, Len(s)) = s

\* a diagnostic text as the specification bounds it
BoundedPrefix(d, text) == IsPrefix(d, text) /\ Len(d) <= ERROR_LOG_CHARS

\* C9: a job whose engine exited with a non-zero status and an error stream
\* that is text fails with "Conversion failed", and the diagnostic of its
\* logged event and the one of the detail sent to the client are both a
\* prefix of the error stream of at most 500 characters
C9_DiagnosticBounded ==
    (/\ Done(1)
     /\ result[1].kind = "completed" /\ result[1].returncode # 0
     /\ Decodable(result[1].stderr)) =>
        /\ Status(1) = 500
        /\ resp[1].detail.msg = "Conversion failed"
        /\ Len(events[1]) = 1
        /\ events[1][1].event = "conversion_error"
        /\ BoundedPrefix(events[1][1].error, decode(result[1].stderr))
        /\ BoundedPrefix(resp[1].detail.error, decode(result[1].stderr))

\* the target as the specification normalizes it: lower case, one leading
\* dot dropped
NormalizedTarget(t) ==
    LET l == Lower(t)
    IN  IF l # <<>> /\ l[1] = "." THEN Tail(l) ELSE l

\* l lists the strings of S in ascending order, each once
IsSortedListOf(l, S) ==
    /\ {l[i] : i \in 1..Len(l)} = S
    /\ \A i \in 1..Len(l) - 1 : StrLess(l[i], l[i + 1])

\* the request of slot r has a file name and a target of at most one
\* leading dot, and has passed authentication
Validated(r) ==
    /\ Count(trace[r], "validate") = 1
    /\ req[r].filename # <<>>
    /\ Len(LStripDots(req[r].to)) >= Len(req[r].to) - 1

\* C10: validation lets a request pass exactly when its input extension and
\* its normalized target are a pair of the matrix; otherwise it answers 400,
\* "Unsupported input format" with the sorted inputs of the matrix when the
\* extension is no input, "Cannot convert" with the sorted outputs of the
\* extension when the pair is not declared
C10_ValidationMatchesMatrix ==
    Validated(1) =>
        LET e == InputExtOf(req[1].filename)
            t == NormalizedTarget(req[1].to)
            passed == trace[1][3] = "read"
        IN  IF e \notin DOMAIN CONVERSIONS_TABLE
            THEN /\ ~passed
                 /\ Done(1) /\ Status(1) = 400
                 /\ resp[1].detail.msg = "Unsupported input format"
                 /\ IsSortedListOf(resp[1].detail.listed, DOMAIN CONVERSIONS_TABLE)
            ELSE IF t \notin DOMAIN CONVERSIONS_TABLE[e]
            THEN /\ ~passed
                 /\ Done(1) /\ Status(1) = 400
                 /\ resp[1].detail.msg = "Cannot convert"
                 /\ IsSortedListOf(resp[1].detail.listed, DOMAIN CONVERSIONS_TABLE[e])
            ELSE /\ passed
                 /\ input_ext(1) = e /\ output_ext(1) = t
                 /\ Status(1) # 400

\* sheet.xlsx to XLSX has been refused as a pair that is not declared
C10_Witness ==
    /\ Done(1)
    /\ req[1].kind = "convert"
    /\ req[1].filename = <<"s", "h", "e", "e", "t", ".", "x", "l", "s", "x">>
    /\ req[1].to = <<"X", "L", "S", "X">>
    /\ Status(1) = 400
    /\ resp[1].detail.msg = "Cannot convert"
    /\ resp[1].detail.to = <<"x", "l", "s", "x">>

\* the fields every outcome event is to carry
OutcomeFields ==
    {"event", "input_format", "output_format", "input_size_bytes", "duration_ms"}

\* C11: every event logged for a request carries its kind, both extensions,
\* the input size and the duration; the event of a success carries the
\* output size, and the event of a failure carries an error detail
C11_EventsComplete ==
    \A r \in Reqs :
        \A i \in 1..Len(events[r]) :
            LET e == events[r][i]
            IN  /\ OutcomeFields \subseteq DOMAIN e
                /\ IF e.event = "conversion_complete"
                   THEN "output_size_bytes" \in DOMAIN e
                   ELSE "error" \in DOMAIN e

\* C12: no file is ever written outside a scratch directory; a job that
\* has made its scratch directory has staged its upload in it by the time it
\* hands the engine to the executor, and never ends without having staged it
C12_StagedInsideScratch ==
    /\ outside = {}
    /\ pc[1] = "submitted" => StagedInput(1) # {}
    /\ (Done(1) /\ Count(trace[1], "mkdtemp") = 1) => Count(trace[1], "stage") = 1

\* engines running in worker 1
EnginesRunning == Cardinality({r \in Reqs : proc[r] = "running"})

\* engines running in the workers w..NumWorkers
RECURSIVE EnginesOfWorkers(_)
EnginesOfWorkers(w) ==
    IF w > NumWorkers THEN 0 ELSE workers[w].engines + EnginesOfWorkers(w + 1)

\* C13: the engines running in the service, all worker processes together,
\* never exceed MAX_CONCURRENT
C13_ServiceWideBound ==
    EnginesRunning + EnginesOfWorkers(2) <= MAX_CONCURRENT

\* the bearer credential of the request is absent or is not the configured
\* secret
BadCredential(q) ==
    ~q.credentials.present \/ q.credentials.credentials # AUTH_TOKEN

\* the request is one the gate guards: /convert or /formats
Guarded(q) == q.kind \in {"convert", "formats"}

\* C14: with authentication enabled, a /convert or /formats request with a
\* bad credential is answered 401 straight after the gate: it is not
\* validated, takes no permit, makes no scratch directory, spawns no engine
\* and logs nothing, and its arrival leaves the semaphore, the directories,
\* the engines and the log as they were; no other request is answered 401,
\* and /health answers "ok" whatever the credential
C14_GateBeforeValidator ==
    /\ [](Done(1) =>
            /\ (Guarded(req[1]) /\ auth_enabled /\ BadCredential(req[1])) =>
                  /\ Status(1) = 401
                  /\ trace[1] = <<"auth", "respond">>
                  /\ events[1] = <<>>
                  /\ scratch[1] = NoDir /\ proc[1] = "none"
                  /\ conversion_semaphore = NewSemaphore
            /\ (Guarded(req[1]) /\ ~(auth_enabled /\ BadCredential(req[1]))) =>
                  /\ Status(1) # 401
                  /\ Pos(trace[1], "auth") = 1 /\ Len(trace[1]) > 2
            /\ req[1].kind = "health" =>
                  resp[1] = [kind |-> "response", status |-> 200,
                             content |-> [status |-> "ok"]])
    /\ [][(pc[1] = "idle" /\ pc'[1] = "done" /\ Status(1)' = 401) =>
             UNCHANGED <<conversion_semaphore, scratch, outside, proc, events>>]_vars

\* a /convert request for a declared pair has been refused for its wrong token
C14_Witness ==
    /\ Done(1) /\ Status(1) = 401 /\ auth_enabled
    /\ req[1].kind = "convert" /\ req[1].credentials = WrongCredentials
    /\ ValidateFormats(req[1]) = NoResp
    /\ trace[1] = <<"auth", "respond">>

\* the files of the requested extension the engine of r has written
ProducedOutputs(r) ==
    {f \in EngineWrote(r) : PathSuffix(f.name) = <<".">> \o output_ext(r)}

\* C15: when the engine has exited with status 0 and has written a file of
\* the requested extension, the response is 200 with the bytes of such a
\* file, the logged output size is their length, the media type is the one
\* the matrix gives for the pair, and the scratch directory was removed
\* before the response
C15_SuccessReturnsOutput ==
    [][(/\ pc[1] = "finished" /\ pc'[1] = "done"
        /\ result[1].kind = "completed" /\ result[1].returncode = 0
        /\ ProducedOutputs(1) # {})
       => /\ resp'[1].kind = "response" /\ resp'[1].status = 200
          /\ \E f \in ProducedOutputs(1) : resp'[1].content = f.content
          /\ Len(events'[1]) = 1
          /\ events'[1][1].event = "conversion_complete"
          /\ events'[1][1].output_size_bytes = resp'[1].content.len
          /\ resp'[1].media_type =
                CONVERSIONS_TABLE[input_ext(1)][output_ext(1)][2]
          /\ scratch'[1] = NoDir
          /\ Before(trace'[1], "rmtree", "respond")]_vars

\* Report.DOCX has become a pdf: the bytes the engine wrote were returned as
\* application/pdf and the scratch directory is gone
C15_Witness ==
    /\ Done(1) /\ Status(1) = 200
    /\ req[1].kind = "convert"
    /\ req[1].filename = <<"R", "e", "p", "o", "r", "t", ".", "D", "O", "C", "X">>
    /\ req[1].to = <<".", "p", "d", "f">>
    /\ resp[1].content = [len |-> 3, data |-> "pdf-1"]
    /\ resp[1].media_type = "application/pdf"
    /\ scratch[1] = NoDir

DocumentInputs == {doc, docx, odt, rtf}

SpreadsheetInputs == {xls, xlsx, ods, csv}

PresentationInputs == {ppt, pptx, odp}

\* the three families of inputs
Families == {DocumentInputs, SpreadsheetInputs, PresentationInputs}

\* the formats a family may reach
FormatsOf(F) ==
    IF F = DocumentInputs THEN DocumentInputs \cup {txt, html, pdf}
    ELSE F \cup {pdf}

\* the targets the matrix M declares for the inputs of family F
TargetsOf(M, F) == UNION {DOMAIN M[e] : e \in F \cap DOMAIN M}

\* the matrix M is well-formed
WellFormed(M) ==
    /\ DOMAIN M = UNION Families
    /\ \A e \in DOMAIN M :
          /\ DOMAIN M[e] # {}
          /\ \A t \in DOMAIN M[e] :
                /\ M[e][t][2] # ""
                /\ t # e
    /\ \A F \in Families : TargetsOf(M, F) \subseteq FormatsOf(F)
    /\ \A F \in Families : \A G \in Families \ {F} :
          TargetsOf(M, F) \cap TargetsOf(M, G) = {pdf}

\* C16: the matrix is well-formed in every state (each input has an
\* output, each pair a MIME type, no pair converts a format to itself, no
\* pair leaves its family, pdf alone is shared), and no step changes it
C16_MatrixWellFormed ==
    /\ [](WellFormed(CONVERSIONS))
    /\ [][CONVERSIONS' = CONVERSIONS]_vars

\* /formats has listed the inputs of the matrix with their outputs
C16_Witness ==
    /\ Done(1) /\ req[1].kind = "formats" /\ Status(1) = 200
    /\ DOMAIN resp[1].content = DOMAIN CONVERSIONS_TABLE
    /\ resp[1].content[csv] = {xls, xlsx, ods}
    /\ CONVERSIONS = CONVERSIONS_TABLE

\* C17: no request ever waits in acquire(): the waiter queue is always
\* empty, and a request that passes the admission check takes its permit in
\* the same run of its coroutine, the acquire following the check at once
C17_NoWaiting ==
    /\ [](/\ conversion_semaphore.waiters = <<>>
          /\ \A r \in Reqs :
                pc[r] # "waiting" /\ Count(trace[r], "wait") = 0)
    /\ [][\A r \in Reqs :
            (AtAdmission(r) /\ pc'[r] # "reading" /\ Status(r)' # 429) =>
                /\ Count(trace'[r], "acquire") = 1
                /\ Pos(trace'[r], "acquire") = Pos(trace'[r], "admit") + 1
                /\ conversion_semaphore'.value = conversion_semaphore.value - 1
                    \/ Count(trace'[r], "release") = 1]_vars

\* one request has taken the last permit at once while another stands
\* before the admission check
C17_Witness ==
    /\ conversion_semaphore = [value |-> 0, waiters |-> <<>>]
    /\ \E r1 \in Reqs : \E r2 \in Reqs \ {r1} :
          /\ pc[r1] = "submitted"
          /\ Pos(trace[r1], "acquire") = Pos(trace[r1], "admit") + 1
          /\ AtAdmission(r2)

\* the substring after the last "." of a name, empty when it has no "."
AfterLastDot(name) ==
    LET i == RFind(name, ".")
    IN  IF i = 0 THEN <<>> ELSE SubSeq(name, i + 1, Len(name))

\* C18: the input extension of a request with a file name is the
\* lower-cased substring after the last "." of the name, and the request is
\* answered "Unsupported input format" exactly when that substring is not an
\* input of the matrix
C18_ExtensionAfterLastDot ==
    (/\ req[1].kind = "convert"
     /\ Count(trace[1], "validate") = 1
     /\ req[1].filename # <<>>) =>
        LET e == Lower(AfterLastDot(req[1].filename))
            unsupported == /\ Done(1) /\ Status(1) = 400
                           /\ resp[1].detail.msg = "Unsupported input format"
        IN  /\ unsupported <=> e \notin DOMAIN CONVERSIONS_TABLE
            /\ locals[1].kind = "convert" => input_ext(1) = e

\* the pair of request q is declared in the matrix
Supported(q) ==
    /\ InputExtOf(q.filename) \in DOMAIN CONVERSIONS_TABLE
    /\ NormalizedTarget(q.to) \in DOMAIN CONVERSIONS_TABLE[InputExtOf(q.filename)]

\* C19: the coroutine resumed after reading the payload answers 413 exactly
\* when the payload is longer than MAX_FILE_SIZE, whatever the state of the
\* semaphore; a 413 comes after the format checks and before the admission
\* check, and an oversized payload of an unsupported pair is answered 400
C19_PayloadTooLarge ==
    /\ [](\A r \in Reqs :
            /\ (Done(r) /\ Status(r) = 413) =>
                  /\ input_size(r) > MAX_FILE_SIZE
                  /\ Supported(req[r])
                  /\ Before(trace[r], "validate", "size")
                  /\ Count(trace[r], "admit") = 0
            /\ (/\ Done(r) /\ Count(trace[r], "validate") = 1
                /\ input_size(r) > MAX_FILE_SIZE /\ ~Supported(req[r])) =>
                  Status(r) = 400)
    /\ [][\A r \in Reqs :
            (pc[r] = "reading" /\ pc'[r] # "reading") =>
                (Status(r)' = 413 <=> input_size(r) > MAX_FILE_SIZE)]_vars

\* with every permit held by a job whose payload has exactly MAX_FILE_SIZE
\* bytes, a payload of one byte more has been refused as too large
C19_Witness ==
    /\ conversion_semaphore.value = 0
    /\ \A h \in Holders : input_size(h) = MAX_FILE_SIZE
    /\ \E r \in Reqs :
          /\ Done(r) /\ Status(r) = 413
          /\ input_size(r) = MAX_FILE_SIZE + 1

\* C20: a running engine belongs to a job that holds a permit and whose
\* scratch directory exists, so the engines running in the worker are never
\* more than the permits held; and no step releases the permit or removes
\* the scratch directory of a job whose engine is running
C20_EngineWithinJob ==
    /\ [](/\ \A r \in Reqs :
                proc[r] = "running" =>
                    /\ r \in Holders
                    /\ scratch[r].exists
                    /\ Count(trace[r], "release") = 0
                    /\ Count(trace[r], "rmtree") = 0
          /\ EnginesRunning <= MAX_CONCURRENT - conversion_semaphore.value
          /\ EnginesRunning <= MAX_CONCURRENT)
    /\ [][\A r \in Reqs :
            proc[r] = "running" =>
                /\ scratch'[r].exists
                /\ Count(trace'[r], "release") = 0
                /\ Count(trace'[r], "rmtree") = 0
                /\ conversion_semaphore'.value <= conversion_semaphore.value
                    \/ \E o \in Reqs \ {r} :
                          Count(trace'[o], "release") > Count(trace[o], "release")]_vars

\* every permit is held by a job whose engine runs, after the engine of an
\* earlier job was killed at the timeout and that job ended
C20_Witness ==
    /\ EnginesRunning = MAX_CONCURRENT
    /\ conversion_semaphore.value = 0
    /\ \E r \in Reqs :
          /\ Done(r) /\ proc[r] = "killed"
          /\ Count(trace[r], "release") = 1 /\ scratch[r] = NoDir

====
